---- MODULE Spec2Model ----
(***************************************************************************)
(* Model of the Cosmos chain adapters of hyperlane-monorepo:               *)
(*   rust/chains/hyperlane-cosmos/src/routing_ism.rs      CosmosRoutingIsm *)
(*   rust/chains/hyperlane-cosmos/src/validator_announce.rs                *)
(*                                                  CosmosValidatorAnnounce*)
(* Every async fn is split at its single await on the provider: the part   *)
(* up to the await builds the request and hands it to the provider, the    *)
(* part after it decodes the provider's reply and returns.                 *)
(***************************************************************************)
EXTENDS Integers, Sequences, FiniteSets, TLC

\* ---------------------------------------------------------------- bounds
\* Width of an H256 and of an H160 in bytes, scaled down from 32 and 20.
H256Len == 2
H160Len == 1
\* Longest validator slice handed to get_announced_storage_locations and
\* longest storage_locations array in a provider response.
MaxValidators == 2
\* Number of calls that may be in flight on the adapters at once.
MaxCalls == 2

\* ---------------------------------------------------------------- values
Null == [tag |-> "none"]

\* Option<T>
None == [some |-> FALSE]
Some(v) == [some |-> TRUE, v |-> v]

\* ChainResult<T>::Err, and the error's kind.
Err(e) == [ok |-> FALSE, err |-> e]

RECURSIVE Zeros(_)
Zeros(n) == IF n <= 0 THEN <<>> ELSE <<0>> \o Zeros(n - 1)

\* H256::from(H160) and CosmosAddress::digest: left-pad with zero bytes.
LeftPad(bytes, n) == Zeros(n - Len(bytes)) \o bytes

SampleH160 == { LeftPad(<<10>>, H160Len), LeftPad(<<171>>, H160Len) }
ValidatorA == LeftPad(<<10>>, H256Len)
ValidatorB == LeftPad(<<171>>, H256Len)
IsmX == [i \in 1..H256Len |-> 255]
ZeroH256 == Zeros(H256Len)
SampleH256 == { ValidatorA, ValidatorB, IsmX }

\* ---------------------------------------------------------------- hex
HexDigits == <<"0", "1", "2", "3", "4", "5", "6", "7",
               "8", "9", "a", "b", "c", "d", "e", "f">>

HexByte(b) == << HexDigits[(b \div 16) + 1], HexDigits[(b % 16) + 1] >>

\* hex::encode / HexBinary's serialisation: two lower-case digits per byte.
RECURSIVE hex_encode(_)
hex_encode(bytes) ==
    IF bytes = <<>> THEN <<>> ELSE HexByte(Head(bytes)) \o hex_encode(Tail(bytes))

HexBinary_from(bytes) == hex_encode(bytes)

DigitValue(ch) == CHOOSE i \in 0..15 : HexDigits[i + 1] = ch

\* The inverse reading of a hex string, used to state what a request carries.
RECURSIVE hex_decode(_)
hex_decode(s) ==
    IF Len(s) < 2 THEN <<>>
    ELSE << DigitValue(s[1]) * 16 + DigitValue(s[2]) >> \o hex_decode(SubSeq(s, 3, Len(s)))

\* ---------------------------------------------------------------- messages
U32BE(n) == << (n \div 16777216) % 256, (n \div 65536) % 256, (n \div 256) % 256, n % 256 >>

\* RawHyperlaneMessage::from(&HyperlaneMessage): the canonical byte form.
RawHyperlaneMessage_from(m) ==
    << m.version >> \o U32BE(m.nonce) \o U32BE(m.origin) \o m.sender
        \o U32BE(m.destination) \o m.recipient \o m.body

Messages ==
    { [version |-> 3, nonce |-> n, origin |-> 1, sender |-> ValidatorA,
       destination |-> 70000, recipient |-> IsmX, body |-> b] :
         n \in {0, 258}, b \in {<<>>, <<222, 173>>} }

\* ---------------------------------------------------------------- addresses
Bech32Prefix == "osmo"

RECURSIVE SumBytes(_)
SumBytes(bytes) == IF bytes = <<>> THEN 0 ELSE Head(bytes) + SumBytes(Tail(bytes))

Checksum(hrp, bytes) == (SumBytes(bytes) + Len(bytes) + (IF hrp = Bech32Prefix THEN 1 ELSE 2)) % 256

\* A native address string, by its parts: prefix, payload bytes, checksum.
NativeAddress(hrp, bytes) == [hrp |-> hrp, data |-> bytes, check |-> Checksum(hrp, bytes)]

\* IdentifierCodec.encode: the native address of a 32-byte identifier.
CosmosAddress_encode(id) == NativeAddress(Bech32Prefix, id)

\* CosmosAddress::from_str: all-or-nothing decode of a native address string.
CosmosAddress_from_str(s) ==
    IF s.hrp # Bech32Prefix THEN Err("MalformedAddress")
    ELSE IF s.check # Checksum(s.hrp, s.data) THEN Err("MalformedAddress")
    ELSE IF Len(s.data) \notin {H160Len, H256Len} THEN Err("MalformedAddress")
    ELSE [ok |-> TRUE, address |-> s.data]

\* CosmosAddress::digest: the 32-byte identifier of a decoded address.
CosmosAddress_digest(a) == LeftPad(a, H256Len)

WellFormedAddresses ==
    { CosmosAddress_encode(id) : id \in SampleH256 }
      \cup { NativeAddress(Bech32Prefix, h) : h \in SampleH160 }

MalformedAddresses ==
    { NativeAddress("cosmos", IsmX),
      [hrp |-> Bech32Prefix, data |-> IsmX, check |-> (Checksum(Bech32Prefix, IsmX) + 1) % 256],
      NativeAddress(Bech32Prefix, <<>>) }

AddressStrings == WellFormedAddresses \cup MalformedAddresses

\* ---------------------------------------------------------------- state
Kinds == {"routing_ism", "validator_announce"}
Calls == 1..MaxCalls

VARIABLES
    adapters,   \* per adapter kind: the struct's fields once new has built it
    newLog,     \* per adapter kind: the arguments and outcome of the last new
    calls       \* per call slot: position, argument, request, reply, result

vars == <<adapters, newLog, calls>>

Idle == [pc |-> "idle", op |-> "none", arg |-> Null, req |-> Null,
         reply |-> Null, result |-> Null, nQuery |-> 0, nSubmit |-> 0]

\* ---------------------------------------------------------------- provider
\* What the provider may answer to a query: an error, or bytes.  Bytes are
\* modelled by the JSON document they hold (or by their not being one).
QueryFailed == Err("QueryFailed")
QueryData(d) == [ok |-> TRUE, data |-> d]
Garbage == [garbage |-> TRUE]

\* self.provider.wasm_query(payload, block_height): one request handed to
\* the provider, the call suspended until the reply.
wasm_query(slot, payload, block_height) ==
    [slot EXCEPT !.pc = "awaiting",
                 !.req = [kind |-> "query", payload |-> payload, block_height |-> block_height],
                 !.nQuery = @ + 1]

\* self.provider.wasm_send(payload, gas_limit)
wasm_send(slot, payload, gas_limit) ==
    [slot EXCEPT !.pc = "awaiting",
                 !.req = [kind |-> "submit", payload |-> payload, gas_limit |-> gas_limit],
                 !.nSubmit = @ + 1]

\* The start of a call: a fresh future holding only its argument.
Enter(op, arg) == [Idle EXCEPT !.op = op, !.arg = arg]

\* The end of a call: the future resolves to its result.
Return(slot, reply, result) ==
    [slot EXCEPT !.pc = "done", !.reply = reply, !.result = result]

CanStart(c) == calls[c].pc # "awaiting"

Awaiting(c, op) == calls[c].pc = "awaiting" /\ calls[c].op = op

\* ---------------------------------------------------------------- new
ConnectionConfs == { [grpc_url |-> "http://node:9090", valid |-> TRUE],
                     [grpc_url |-> "", valid |-> FALSE] }

Locators == { [domain |-> "osmosis", address |-> IsmX],
              [domain |-> "neutron", address |-> ValidatorB] }

\* WasmGrpcProvider::new(conf, locator, signer)
WasmGrpcProvider_new(conf, locator, signer) ==
    IF conf.valid THEN [ok |-> TRUE, provider |-> [locator |-> locator, signer |-> signer]]
    ELSE Err("ProviderConstructionError")

NotBuilt == [built |-> FALSE]

\* Mutant of Self: the address field left at H256::zero().
Self_zero_address(locator, provider) ==
    [built |-> TRUE, domain |-> locator.domain, address |-> ZeroH256,
     provider |-> provider]

\* The struct literal of new: Self { domain, address, provider }.
Self(locator, provider) ==
    [built |-> TRUE, domain |-> locator.domain, address |-> locator.address,
     provider |-> provider]

\* CosmosRoutingIsm::new / CosmosValidatorAnnounce::new (same body).
new(kind, conf, locator, signer) ==
    /\ ~adapters[kind].built
    /\ LET provider == WasmGrpcProvider_new(conf, locator, signer) IN
         /\ adapters' = [adapters EXCEPT ![kind] =
                IF provider.ok THEN Self(locator, provider.provider) ELSE NotBuilt]
         /\ newLog' = [newLog EXCEPT ![kind] =
                [called |-> TRUE, locator |-> locator, ok |-> provider.ok]]
    /\ UNCHANGED calls

CosmosRoutingIsm_new(conf, locator, signer) == new("routing_ism", conf, locator, signer)

CosmosValidatorAnnounce_new(conf, locator, signer) ==
    new("validator_announce", conf, locator, signer)

\* HyperlaneContract::address and HyperlaneChain::domain
address(kind) == adapters[kind].address
domain(kind) == adapters[kind].domain

\* ---------------------------------------------------------------- route
\* Mutant of RoutePayload: only the message body is hex-encoded.
RoutePayload_body_only(message) ==
    [routing_ism |-> [route |-> [message |-> HexBinary_from(message.body)]]]

\* QueryMsg::RoutingIsm(RoutingIsmQueryMsg::Route { message })
RoutePayload(message) ==
    [routing_ism |-> [route |->
        [message |-> HexBinary_from(RawHyperlaneMessage_from(message))]]]

\* serde_json::from_slice::<RouteResponse>(&data)
from_slice_RouteResponse(data) ==
    IF DOMAIN data = {"ism"} THEN [ok |-> TRUE, response |-> data]
    ELSE Err("ResponseDecodeError")

\* Mutant of route_result: unwrap_or_default() in place of the ? operators.
route_result_or_default(reply) ==
    IF ~reply.ok THEN [ok |-> TRUE, h256 |-> ZeroH256]
    ELSE LET parsed == from_slice_RouteResponse(reply.data) IN
      IF ~parsed.ok THEN [ok |-> TRUE, h256 |-> ZeroH256]
      ELSE LET addr == CosmosAddress_from_str(parsed.response.ism) IN
        IF ~addr.ok THEN [ok |-> TRUE, h256 |-> ZeroH256]
        ELSE [ok |-> TRUE, h256 |-> CosmosAddress_digest(addr.address)]

\* route after the await: decode the reply into the module identifier.
route_result(reply) ==
    IF ~reply.ok THEN Err(reply.err)
    ELSE LET parsed == from_slice_RouteResponse(reply.data) IN
      IF ~parsed.ok THEN Err(parsed.err)
      ELSE LET addr == CosmosAddress_from_str(parsed.response.ism) IN
        IF ~addr.ok THEN Err(addr.err)
        ELSE [ok |-> TRUE, h256 |-> CosmosAddress_digest(addr.address)]

\* route up to the await.
route_send(c, message) ==
    /\ adapters["routing_ism"].built
    /\ CanStart(c)
    /\ calls' = [calls EXCEPT ![c] =
          wasm_query(Enter("route", [message |-> message]), RoutePayload(message), None)]
    /\ UNCHANGED <<adapters, newLog>>

\* Mutant of route_resume: a failed query is sent once more.
route_resume_retry(c, reply) ==
    /\ Awaiting(c, "route")
    /\ calls' = [calls EXCEPT ![c] =
          IF ~reply.ok /\ @.nQuery < 2
          THEN wasm_query(@, @.req.payload, @.req.block_height)
          ELSE Return(@, reply, route_result(reply))]
    /\ UNCHANGED <<adapters, newLog>>

\* Mutant of route_resume: the reply is decoded through a connection shared
\* by all calls, which reports a failure while another call is using it.
route_resume_busy(c, reply) ==
    /\ Awaiting(c, "route")
    /\ calls' = [calls EXCEPT ![c] =
          Return(@, reply,
                 IF \E d \in Calls \ {c} : calls[d].pc = "awaiting"
                 THEN Err("QueryFailed") ELSE route_result(reply))]
    /\ UNCHANGED <<adapters, newLog>>

route_resume(c, reply) ==
    /\ Awaiting(c, "route")
    /\ calls' = [calls EXCEPT ![c] = Return(@, reply, route_result(reply))]
    /\ UNCHANGED <<adapters, newLog>>

RouteReplies ==
    { QueryFailed, QueryData(Garbage), QueryData([storage_locations |-> <<>>]) }
      \cup { QueryData([ism |-> s]) : s \in AddressStrings }

\* ------------------------------------------- get_announced_storage_locations
RECURSIVE SeqsUpTo(_, _)
SeqsUpTo(S, n) ==
    IF n = 0 THEN { <<>> }
    ELSE LET shorter == SeqsUpTo(S, n - 1) IN
         shorter \cup { Append(q, x) : q \in { r \in shorter : Len(r) = n - 1 }, x \in S }

ValidatorSeqs == SeqsUpTo({ValidatorA, ValidatorB}, MaxValidators)

\* The key under which a response lists a validator: the hex string the
\* query named it by.
ValidatorKey(v) == HexBinary_from(v)

LocationLists == { <<>>, <<"s3://bucket-a/eu">>, <<"gs://bucket-b">> }

StorageLocationEntries ==
    { <<ValidatorKey(v), locs>> : v \in {ValidatorA, ValidatorB}, locs \in LocationLists }

\* validators.iter().map(|v| HexBinary::from(v.as_bytes())).collect()
\* wrapped in QueryMsg::GetAnnounceStorageLocations { validators }
GetAnnounceStorageLocationsPayload(validators) ==
    [get_announce_storage_locations |->
        [validators |-> [i \in 1..Len(validators) |-> HexBinary_from(validators[i])]]]

\* serde_json::from_slice::<GetAnnounceStorageLocationsResponse>(&data)
from_slice_GetAnnounceStorageLocationsResponse(data) ==
    IF DOMAIN data = {"storage_locations"} THEN [ok |-> TRUE, response |-> data]
    ELSE Err("ResponseDecodeError")

\* response.storage_locations.into_iter().map(|v| v.1).collect()
SecondOfEach(storage_locations) ==
    [i \in 1..Len(storage_locations) |-> storage_locations[i][2]]

\* get_announced_storage_locations after the await.
get_announced_storage_locations_result(reply) ==
    IF ~reply.ok THEN Err(reply.err)
    ELSE LET parsed == from_slice_GetAnnounceStorageLocationsResponse(reply.data) IN
      IF ~parsed.ok THEN Err(parsed.err)
      ELSE [ok |-> TRUE, lists |-> SecondOfEach(parsed.response.storage_locations)]

\* get_announced_storage_locations up to the await.
get_announced_storage_locations_send(c, validators) ==
    /\ adapters["validator_announce"].built
    /\ CanStart(c)
    /\ calls' = [calls EXCEPT ![c] =
          wasm_query(Enter("get_announced_storage_locations", [validators |-> validators]),
                     GetAnnounceStorageLocationsPayload(validators), None)]
    /\ UNCHANGED <<adapters, newLog>>

get_announced_storage_locations_resume(c, reply) ==
    /\ Awaiting(c, "get_announced_storage_locations")
    /\ calls' = [calls EXCEPT ![c] =
          Return(@, reply, get_announced_storage_locations_result(reply))]
    /\ UNCHANGED <<adapters, newLog>>

GetReplies ==
    { QueryFailed, QueryData(Garbage), QueryData([ism |-> CosmosAddress_encode(IsmX)]) }
      \cup { QueryData([storage_locations |-> sl]) :
                sl \in SeqsUpTo(StorageLocationEntries, MaxValidators) }

\* ---------------------------------------------------------------- announce
\* The signature a validator's key produces over an announcement (a stand-in
\* for the off-chain signer; the adapters never compute or check it).
SignatureOf(value) == << SumBytes(value.validator) % 256, Len(value.storage_location) % 256 >>

ForgedSignature == <<0, 0>>

Announcement(v, l) == [validator |-> v, mailbox_domain |-> 70000, storage_location |-> l]

SignedAnnouncements ==
    { [value |-> Announcement(v, l),
       signature |-> IF forged THEN ForgedSignature ELSE SignatureOf(Announcement(v, l))] :
         v \in SampleH160, l \in {"s3://bucket-a/eu", "gs://bucket-b"}, forged \in BOOLEAN }

GasLimits == { None, Some(250000) }

\* Mutant of AnnouncementRequest: the validator widened to an H256 first.
AnnouncementRequest_h256(announcement) ==
    [announce |->
        [validator |-> hex_encode(LeftPad(announcement.value.validator, H256Len)),
         storage_location |-> announcement.value.storage_location,
         signature |-> hex_encode(announcement.signature)]]

\* AnnouncementRequest { announce: AnnouncementRequestInner { .. } }
AnnouncementRequest(announcement) ==
    [announce |->
        [validator |-> hex_encode(announcement.value.validator),
         storage_location |-> announcement.value.storage_location,
         signature |-> hex_encode(announcement.signature)]]

RequiredReceiptFields == {"code", "txhash", "gas_used", "height"}

\* TxOutcome::try_from_tx_response(response)
TxOutcome_try_from_tx_response(response) ==
    IF ~(RequiredReceiptFields \subseteq DOMAIN response) THEN Err("ReceiptDecodeError")
    ELSE [ok |-> TRUE,
          outcome |-> [transaction_id |-> response.txhash,
                       executed |-> response.code = 0,
                       gas_used |-> response.gas_used,
                       block |-> response.height,
                       raw |-> response]]

SubmitFailed == Err("SubmitFailed")
Receipt(r) == [ok |-> TRUE, receipt |-> r]

Receipts ==
    { [code |-> 0, txhash |-> <<"a", "b", "0", "1">>, gas_used |-> 61000, height |-> 12],
      [code |-> 5, txhash |-> <<"c", "d", "0", "2">>, gas_used |-> 30000, height |-> 13],
      [txhash |-> <<"a", "b", "0", "1">>, gas_used |-> 61000, height |-> 12],
      [code |-> 0, gas_used |-> 61000, height |-> 12] }

SubmitReplies == { SubmitFailed } \cup { Receipt(r) : r \in Receipts }

\* Mutant of announce_result: a receipt that does not translate is reported
\* as a transaction that did not execute.
announce_result_fabricated(reply) ==
    IF ~reply.ok THEN Err(reply.err)
    ELSE LET outcome == TxOutcome_try_from_tx_response(reply.receipt) IN
      IF outcome.ok THEN outcome
      ELSE [ok |-> TRUE,
            outcome |-> [transaction_id |-> <<>>, executed |-> FALSE, gas_used |-> 0,
                         block |-> 0, raw |-> reply.receipt]]

\* announce after the await.
announce_result(reply) ==
    IF ~reply.ok THEN Err(reply.err)
    ELSE TxOutcome_try_from_tx_response(reply.receipt)

\* announce up to the await.
announce_send(c, announcement, tx_gas_limit) ==
    /\ adapters["validator_announce"].built
    /\ CanStart(c)
    /\ calls' = [calls EXCEPT ![c] =
          wasm_send(Enter("announce",
                          [announcement |-> announcement, tx_gas_limit |-> tx_gas_limit]),
                    AnnouncementRequest(announcement), tx_gas_limit)]
    /\ UNCHANGED <<adapters, newLog>>

announce_resume(c, reply) ==
    /\ Awaiting(c, "announce")
    /\ calls' = [calls EXCEPT ![c] = Return(@, reply, announce_result(reply))]
    /\ UNCHANGED <<adapters, newLog>>

\* Mutant of announce_tokens_needed: no advice at all.
announce_tokens_needed_none(c, announcement) ==
    /\ adapters["validator_announce"].built
    /\ CanStart(c)
    /\ calls' = [calls EXCEPT ![c] =
          Return(Enter("announce_tokens_needed", [announcement |-> announcement]),
                 Null, None)]
    /\ UNCHANGED <<adapters, newLog>>

\* announce_tokens_needed: no await, the call runs to its end in one step.
announce_tokens_needed(c, announcement) ==
    /\ adapters["validator_announce"].built
    /\ CanStart(c)
    /\ calls' = [calls EXCEPT ![c] =
          Return(Enter("announce_tokens_needed", [announcement |-> announcement]),
                 Null, Some(0))]
    /\ UNCHANGED <<adapters, newLog>>

\* ---------------------------------------------------------------- spec
Init ==
    /\ adapters = [k \in Kinds |-> NotBuilt]
    /\ newLog = [k \in Kinds |-> [called |-> FALSE]]
    /\ calls = [c \in Calls |-> Idle]

Next ==
    \/ \E conf \in ConnectionConfs, locator \in Locators :
          CosmosRoutingIsm_new(conf, locator, None)
    \/ \E conf \in ConnectionConfs, locator \in Locators :
          CosmosValidatorAnnounce_new(conf, locator, None)
    \/ \E m \in Messages : route_send(1, m)
    \/ \E reply \in RouteReplies : route_resume(1, reply)
    \/ \E vs \in ValidatorSeqs : get_announced_storage_locations_send(1, vs)
    \/ \E reply \in GetReplies : get_announced_storage_locations_resume(1, reply)
    \/ \E a \in SignedAnnouncements, gas \in GasLimits : announce_send(1, a, gas)
    \/ \E reply \in SubmitReplies : announce_resume(1, reply)
    \/ \E a \in SignedAnnouncements : announce_tokens_needed(1, a)

\* One caller: at most one call in flight, over the full input sets.
Spec == Init /\ [][Next]_vars

\* ------------------------------------------------------- concurrent callers
ConcMessages == { m \in Messages : m.body = <<>> }

ConcRouteReplies ==
    { QueryFailed, QueryData([ism |-> CosmosAddress_encode(IsmX)]),
      QueryData([ism |-> CosmosAddress_encode(ValidatorA)]) }

ConcValidatorSeqs == { <<ValidatorA>>, <<ValidatorB>> }

ConcGetReplies ==
    { QueryFailed,
      QueryData([storage_locations |-> << <<ValidatorKey(ValidatorA), <<"gs://bucket-b">> >> >>]) }

ConcAnnouncements == { a \in SignedAnnouncements :
                         /\ a.value.storage_location = "gs://bucket-b"
                         /\ a.signature # ForgedSignature }

ConcSubmitReplies ==
    { SubmitFailed,
      Receipt([code |-> 0, txhash |-> <<"a", "b", "0", "1">>, gas_used |-> 61000, height |-> 12]) }

ConcLocators == [k \in Kinds |-> [domain |-> "osmosis", address |-> IsmX]]

\* Both adapters already built; every slot may hold a call.
InitConc ==
    /\ adapters = [k \in Kinds |->
          Self(ConcLocators[k],
               WasmGrpcProvider_new([grpc_url |-> "http://node:9090", valid |-> TRUE],
                                    ConcLocators[k], None).provider)]
    /\ newLog = [k \in Kinds |-> [called |-> TRUE, locator |-> ConcLocators[k], ok |-> TRUE]]
    /\ calls = [c \in Calls |-> Idle]

NextConc ==
    \E c \in Calls :
        \/ \E m \in ConcMessages : route_send(c, m)
        \/ \E reply \in ConcRouteReplies : route_resume(c, reply)
        \/ \E vs \in ConcValidatorSeqs : get_announced_storage_locations_send(c, vs)
        \/ \E reply \in ConcGetReplies : get_announced_storage_locations_resume(c, reply)
        \/ \E a \in ConcAnnouncements : announce_send(c, a, None)
        \/ \E reply \in ConcSubmitReplies : announce_resume(c, reply)
        \/ \E a \in ConcAnnouncements : announce_tokens_needed(c, a)

SpecConc == InitConc /\ [][NextConc]_vars

\* ---------------------------------------------------------------- claims
Started(c, op) == calls[c].op = op /\ calls[c].pc \in {"awaiting", "done"}
Done(c, op) == calls[c].op = op /\ calls[c].pc = "done"

GET == "get_announced_storage_locations"

\* The list a response associates with a validator: the list of its first
\* entry keyed by the validator, the empty list when it has no such entry.
Covers(storage_locations, v) ==
    \E i \in 1..Len(storage_locations) : storage_locations[i][1] = ValidatorKey(v)

AssociatedLocations(storage_locations, v) ==
    IF Covers(storage_locations, v)
    THEN LET i == CHOOSE i \in 1..Len(storage_locations) :
                    /\ storage_locations[i][1] = ValidatorKey(v)
                    /\ \A j \in 1..(i - 1) : storage_locations[j][1] # ValidatorKey(v)
         IN storage_locations[i][2]
    ELSE <<>>

\* C1: on success, position i of the result of get_announced_storage_locations
\* holds the list the response associates with validators[i], whatever the
\* order of the response's entries.
C1_PositionAligned ==
    \A c \in Calls :
        (Done(c, GET) /\ calls[c].result.ok) =>
            \A i \in 1..Len(calls[c].arg.validators) :
                i <= Len(calls[c].result.lists) =>
                    calls[c].result.lists[i] =
                        AssociatedLocations(calls[c].reply.data.storage_locations,
                                            calls[c].arg.validators[i])

\* C2: on success the result of get_announced_storage_locations has one list
\* per input validator, and the list of a validator the response does not
\* cover is empty.
C2_OneListPerValidator ==
    \A c \in Calls :
        (Done(c, GET) /\ calls[c].result.ok) =>
            /\ Len(calls[c].result.lists) = Len(calls[c].arg.validators)
            /\ \A i \in 1..Len(calls[c].arg.validators) :
                  ~Covers(calls[c].reply.data.storage_locations, calls[c].arg.validators[i])
                      => calls[c].result.lists[i] = <<>>

\* C3: a route call answered {"ism": <native address of X>} returns exactly X,
\* and the one query of a route call carries the hex of the canonical raw
\* bytes of its message, with no block-height override.
C3_RouteResolves ==
    \A c \in Calls :
        /\ Started(c, "route") =>
              /\ calls[c].req.kind = "query"
              /\ DOMAIN calls[c].req.payload = {"routing_ism"}
              /\ hex_decode(calls[c].req.payload.routing_ism.route.message)
                    = RawHyperlaneMessage_from(calls[c].arg.message)
              /\ calls[c].req.block_height = None
        /\ \A X \in SampleH256 :
              (Done(c, "route") /\ calls[c].reply = QueryData([ism |-> CosmosAddress_encode(X)]))
                  => calls[c].result = [ok |-> TRUE, h256 |-> X]

C3_Witness ==
    \E c \in Calls :
        /\ Done(c, "route")
        /\ calls[c].arg.message.body # <<>>
        /\ calls[c].reply = QueryData([ism |-> CosmosAddress_encode(IsmX)])
        /\ calls[c].result = [ok |-> TRUE, h256 |-> IsmX]

ReceiptTranslates(reply) == reply.ok /\ RequiredReceiptFields \subseteq DOMAIN reply.receipt

\* C4: announce returns a TransactionOutcome only when the submit succeeded
\* and the receipt has every required field; otherwise it returns the
\* provider's error or ReceiptDecodeError.
C4_NoFabricatedOutcome ==
    \A c \in Calls :
        Done(c, "announce") =>
            /\ calls[c].result.ok <=> ReceiptTranslates(calls[c].reply)
            /\ ~calls[c].reply.ok => calls[c].result = calls[c].reply
            /\ (calls[c].reply.ok /\ ~ReceiptTranslates(calls[c].reply))
                  => calls[c].result = Err("ReceiptDecodeError")
            /\ calls[c].result.ok =>
                  /\ calls[c].result.outcome.executed = (calls[c].reply.receipt.code = 0)
                  /\ calls[c].result.outcome.raw = calls[c].reply.receipt

C4_Witness ==
    \E c \in Calls :
        /\ Done(c, "announce")
        /\ calls[c].reply.ok
        /\ "code" \notin DOMAIN calls[c].reply.receipt
        /\ calls[c].result = Err("ReceiptDecodeError")

\* A reply that route, respectively get_announced_storage_locations, cannot
\* turn into a value.
RouteReplyFails(reply) ==
    \/ ~reply.ok
    \/ DOMAIN reply.data # {"ism"}
    \/ reply.data.ism \in MalformedAddresses

GetReplyFails(reply) ==
    \/ ~reply.ok
    \/ DOMAIN reply.data # {"storage_locations"}

\* C5: when the query fails, the bytes do not parse as the expected response
\* or (for route) the address string is malformed, route and
\* get_announced_storage_locations return an error, the provider's own
\* unchanged, and never a value.
C5_FailuresSurface ==
    \A c \in Calls :
        /\ (Done(c, "route") /\ RouteReplyFails(calls[c].reply)) =>
              /\ ~calls[c].result.ok
              /\ ~calls[c].reply.ok => calls[c].result = calls[c].reply
              /\ calls[c].reply.ok =>
                    calls[c].result.err \in {"ResponseDecodeError", "MalformedAddress"}
        /\ (Done(c, GET) /\ GetReplyFails(calls[c].reply)) =>
              /\ ~calls[c].result.ok
              /\ ~calls[c].reply.ok => calls[c].result = calls[c].reply
              /\ calls[c].reply.ok => calls[c].result.err = "ResponseDecodeError"

C5_Witness ==
    \E c \in Calls :
        /\ Done(c, "route")
        /\ calls[c].reply.ok
        /\ DOMAIN calls[c].reply.data = {"ism"}
        /\ calls[c].reply.data.ism \in MalformedAddresses
        /\ calls[c].result = Err("MalformedAddress")

RequestCounts(c, queries, submits) ==
    calls[c].nQuery = queries /\ calls[c].nSubmit = submits

C6_OneRequest ==
    \A c \in Calls :
        /\ Started(c, "announce") => RequestCounts(c, 0, 1)
        /\ Started(c, "route") => RequestCounts(c, 1, 0)
        /\ Started(c, GET) =>
              /\ RequestCounts(c, 1, 0)
              /\ Len(calls[c].req.payload.get_announce_storage_locations.validators)
                    = Len(calls[c].arg.validators)

\* A call suspended at the provider either stays suspended or ends, and in
\* both cases has issued no further request.
C6_NoSecondRequest ==
    \A c \in Calls :
        calls[c].pc = "awaiting" =>
            /\ calls'[c].pc \in {"awaiting", "done"}
            /\ calls'[c].nQuery = calls[c].nQuery
            /\ calls'[c].nSubmit = calls[c].nSubmit
            /\ calls'[c].req = calls[c].req

\* C6: every announce call issues exactly one submit and no query, every
\* route and get_announced_storage_locations call exactly one query (for
\* the whole validator sequence) and no submit, and a suspended call ends
\* on the provider's reply, error or not, without another request.
C6_NoRetry == []C6_OneRequest /\ [][C6_NoSecondRequest]_vars

C6_Witness ==
    \E c \in Calls :
        /\ Done(c, "route")
        /\ ~calls[c].reply.ok
        /\ ~calls[c].result.ok
        /\ RequestCounts(c, 1, 0)

\* C7: announce_tokens_needed returns the amount zero, present, for every
\* announcement, and issues no query and no submit.
C7_ZeroTokens ==
    \A c \in Calls :
        Started(c, "announce_tokens_needed") =>
            /\ calls[c].pc = "done"
            /\ calls[c].result = Some(0)
            /\ RequestCounts(c, 0, 0)
            /\ calls[c].req = Null

C7_Witness ==
    \E c \in Calls :
        /\ Done(c, "announce_tokens_needed")
        /\ calls[c].arg.announcement.signature = ForgedSignature
        /\ calls[c].result = Some(0)

ValidSignature(announcement) == announcement.signature = SignatureOf(announcement.value)

\* C8: the request announce hands to the provider carries the hex of the
\* announcement's validator, its storage location unchanged, the hex of its
\* signature bytes and the caller's gas limit; and announce can be started
\* with any announcement, validly signed or not.
C8_FaithfulForward ==
    /\ \A c \in Calls :
          Started(c, "announce") =>
              LET a == calls[c].arg.announcement
                  r == calls[c].req
              IN /\ r.kind = "submit"
                 /\ DOMAIN r.payload = {"announce"}
                 /\ Len(r.payload.announce.validator) = 2 * H160Len
                 /\ hex_decode(r.payload.announce.validator) = a.value.validator
                 /\ r.payload.announce.storage_location = a.value.storage_location
                 /\ hex_decode(r.payload.announce.signature) = a.signature
                 /\ r.gas_limit = calls[c].arg.tx_gas_limit
    /\ (adapters["validator_announce"].built /\ CanStart(1)) =>
          \A a \in SignedAnnouncements : ENABLED announce_send(1, a, None)

C8_Witness ==
    \E c \in Calls :
        /\ Started(c, "announce")
        /\ ~ValidSignature(calls[c].arg.announcement)
        /\ calls[c].arg.tx_gas_limit = Some(250000)
        /\ calls[c].req.gas_limit = Some(250000)
        /\ calls[c].req.payload.announce.signature = <<"0", "0", "0", "0">>

C9_SameInputsSameResult ==
    \A c, d \in Calls :
        ( /\ calls[c].pc = "done" /\ calls[d].pc = "done"
          /\ calls[c].op = calls[d].op
          /\ calls[c].arg = calls[d].arg
          /\ calls[c].reply = calls[d].reply )
            => calls[c].result = calls[d].result

\* A step of one call leaves every other call as it was.
C9_OthersUntouched ==
    \A c \in Calls :
        calls'[c] # calls[c] => \A d \in Calls \ {c} : calls'[d] = calls[d]

C10_BoundToLocator ==
    \A k \in Kinds :
        /\ adapters[k].built =>
              /\ newLog[k].called /\ newLog[k].ok
              /\ domain(k) = newLog[k].locator.domain
              /\ address(k) = newLog[k].locator.address
        /\ (newLog[k].called /\ ~newLog[k].ok) => ~adapters[k].built

C10_NeverRebound ==
    \A k \in Kinds : adapters[k].built => adapters'[k] = adapters[k]

\* C10: once new has succeeded, domain() and address() return the domain and
\* address of the locator given to new and no call changes them; when the
\* provider cannot be built, no adapter exists.
C10_LocatorForLife == []C10_BoundToLocator /\ [][C10_NeverRebound]_vars

C10_Witness ==
    /\ adapters["validator_announce"].built
    /\ domain("validator_announce") = "neutron"
    /\ address("validator_announce") = ValidatorB
    /\ newLog["routing_ism"].called /\ ~newLog["routing_ism"].ok
    /\ \E c \in Calls : Done(c, "announce") /\ ~calls[c].result.ok

====
